---------------------------- MODULE Spec2Model ----------------------------
(***************************************************************************)
(* Model of two Terraform provider resources:                              *)
(*   - the Cognito user-pool user (package cognitoidp), and                *)
(*   - the Network Manager core-network policy attachment.                 *)
(* Go strings that the code inspects (attribute keys, import IDs) are      *)
(* sequences of one-character strings, so that HasPrefix, TrimPrefix,      *)
(* Sprintf and Split are computed and not assumed.  Go maps are functions  *)
(* whose DOMAIN is the set of keys; Go map iteration order and the order   *)
(* of API lists are nondeterministic.                                      *)
(***************************************************************************)
EXTENDS Integers, Sequences, FiniteSets, TLC

VARIABLES
    \* --- computeUserAttributesUpdate called on two caller-owned maps
    cpc,        \* "ready" | "done"
    cOld,       \* the map passed as `old` (a reference: the callee can mutate it)
    cNew,       \* the map passed as `new`
    cOld0,      \* contents of `old` when the call was made
    cNew0,      \* contents of `new` when the call was made
    cUpd,       \* first result: map of attributes to upsert
    cDel,       \* second result: list of keys to delete
    \* --- an attribute map written with expandAttribute, read with flattenUserAttributes
    rpc,        \* "ready" | "written" | "read"
    rMap,       \* the Terraform-side map that is written
    rApi,       \* the API list produced by expandAttribute
    rBack,      \* the Terraform-side map produced by flattenUserAttributes
    \* --- resourceUserImport
    ipc,        \* "ready" | "done"
    iId,        \* d.Id() given to the importer
    iData,      \* user_pool_id and username of the ResourceData
    iSet,       \* the keys d.Set was called with
    iRet,       \* "none" | "ok" | "error"
    \* --- one resource instance driven through its CRUD handlers
    res,        \* "user" | "policy": the resource type of the instance
    remote,     \* the remote entity (authoritative, owned by the service)
    d,          \* the ResourceData (local state) as the last handler left it
    prior,      \* the stored state the last handler was planned against
    d0,         \* the ResourceData when the last handler was entered
    op,         \* the last handler: "Create" | "Read" | "Update" | "Delete"
    calls,      \* the remote calls the last handler issued, with their results
    err         \* whether the last handler returned an error diagnostic

computeVars == <<cpc, cOld, cNew, cOld0, cNew0, cUpd, cDel>>
roundVars   == <<rpc, rMap, rApi, rBack>>
importVars  == <<ipc, iId, iData, iSet, iRet>>
crudVars    == <<res, remote, d, prior, d0, op, calls, err>>
vars == <<computeVars, roundVars, importVars, crudVars>>

---------------------------------------------------------------------------
(* Strings *)

Str_custom  == <<"c","u","s","t","o","m",":">>
Str_dev     == <<"d","e","v",":">>
Str_slash   == <<"/">>

\* strings.HasPrefix
HasPrefix(s, p) == Len(s) >= Len(p) /\ SubSeq(s, 1, Len(p)) = p

\* strings.TrimPrefix
TrimPrefix(s, p) == IF HasPrefix(s, p) THEN SubSeq(s, Len(p) + 1, Len(s)) ELSE s

\* All orders in which the elements of a finite set can be visited.
Orders(S) ==
    {s \in [1..Cardinality(S) -> S] : \A x \in S : \E i \in 1..Cardinality(S) : s[i] = x}

(* Go maps *)

EmptyMap == <<>>

MapPut(m, k, v) == [x \in (DOMAIN m) \cup {k} |-> IF x = k THEN v ELSE m[x]]

MapDelete(m, k) == [x \in (DOMAIN m) \ {k} |-> m[x]]

---------------------------------------------------------------------------
(* The fixed standard-attribute list *)

standardAttributeKeys ==
    { <<"a","d","d","r","e","s","s">>,
      <<"b","i","r","t","h","d","a","t","e">>,
      <<"e","m","a","i","l">>,
      <<"e","m","a","i","l","_","v","e","r","i","f","i","e","d">>,
      <<"g","e","n","d","e","r">>,
      <<"g","i","v","e","n","_","n","a","m","e">>,
      <<"f","a","m","i","l","y","_","n","a","m","e">>,
      <<"l","o","c","a","l","e">>,
      <<"m","i","d","d","l","e","_","n","a","m","e">>,
      <<"n","a","m","e">>,
      <<"n","i","c","k","n","a","m","e">>,
      <<"p","h","o","n","e","_","n","u","m","b","e","r">>,
      <<"p","h","o","n","e","_","n","u","m","b","e","r","_","v","e","r","i","f","i","e","d">>,
      <<"p","i","c","t","u","r","e">>,
      <<"p","r","e","f","e","r","r","e","d","_","u","s","e","r","n","a","m","e">>,
      <<"p","r","o","f","i","l","e">>,
      <<"s","u","b">>,
      <<"u","p","d","a","t","e","d","_","a","t">>,
      <<"w","e","b","s","i","t","e">>,
      <<"z","o","n","e","i","n","f","o">> }

UserAttributeKeyMatchesStandardAttribute(input) ==
    IF Len(input) = 0 THEN FALSE ELSE input \in standardAttributeKeys

\* Attribute values are never inspected by the code: two distinct values.
AttrValues == {"a", "b"}

---------------------------------------------------------------------------
(* computeUserAttributesUpdate *)

\* One iteration of `for k, v := range newMap` where the `delete(oldMap, k)`
\* statement is missing.
computeStepKeepsOld(acc, newMap, k) ==
    IF k \in DOMAIN acc.oldMap
        THEN [upd    |-> IF acc.oldMap[k] # newMap[k]
                            THEN MapPut(acc.upd, k, newMap[k]) ELSE acc.upd,
              oldMap |-> acc.oldMap]
        ELSE [upd |-> MapPut(acc.upd, k, newMap[k]), oldMap |-> acc.oldMap]

\* One iteration where `delete(oldMap, k)` is inside the inner `if`.
computeStepDeletesChangedOnly(acc, newMap, k) ==
    IF k \in DOMAIN acc.oldMap
        THEN IF acc.oldMap[k] # newMap[k]
                 THEN [upd |-> MapPut(acc.upd, k, newMap[k]),
                       oldMap |-> MapDelete(acc.oldMap, k)]
                 ELSE acc
        ELSE [upd |-> MapPut(acc.upd, k, newMap[k]), oldMap |-> acc.oldMap]

\* One iteration of `for k, v := range newMap`; acc holds upd and oldMap.
computeStep(acc, newMap, k) ==
    IF k \in DOMAIN acc.oldMap
        THEN [upd    |-> IF acc.oldMap[k] # newMap[k]
                            THEN MapPut(acc.upd, k, newMap[k]) ELSE acc.upd,
              oldMap |-> MapDelete(acc.oldMap, k)]
        ELSE [upd |-> MapPut(acc.upd, k, newMap[k]), oldMap |-> acc.oldMap]

RECURSIVE computeLoop(_, _, _)
computeLoop(acc, newMap, order) ==
    IF order = <<>> THEN acc
    ELSE computeLoop(computeStep(acc, newMap, Head(order)), newMap, Tail(order))

\* The elements of the sequence `iter` that are in S, in iter's order: the
\* order in which a Go map with key set S is ranged over, given by a total
\* order `iter` of the keys.
Restrict(iter, S) == SelectSeq(iter, LAMBDA x : x \in S)

\* computeUserAttributesUpdate(old, new) when Go ranges over maps in the
\* order `iter`: the results upd and del, and the contents of the map passed
\* as `old` after the call (oldMap aliases it).
computeUserAttributesUpdate(old, new, iter) ==
    LET r == computeLoop([upd |-> EmptyMap, oldMap |-> old], new,
                         Restrict(iter, DOMAIN new))
    IN  [upd |-> r.upd, del |-> Restrict(iter, DOMAIN r.oldMap), oldMap |-> r.oldMap]

---------------------------------------------------------------------------
(* Inputs of the reconciliation check *)

MaxKeys == 3

KeyPool == << <<"n","i","c","k","n","a","m","e">>,
              <<"l","o","c","a","l","e">>,
              <<"c","u","s","t","o","m","_","f","i","e","l","d">>,
              <<"f","o","o">>,
              <<"b","a","r">> >>

ComputeKeys == {KeyPool[i] : i \in 1..(IF MaxKeys < Len(KeyPool) THEN MaxKeys ELSE Len(KeyPool))}

MapsOver(K) == UNION {[S -> AttrValues] : S \in SUBSET K}

\* upd, del := computeUserAttributesUpdate(old, new)
ComputeCall ==
    /\ cpc = "ready"
    /\ \E iter \in Orders(ComputeKeys) :
          LET r == computeUserAttributesUpdate(cOld, cNew, iter) IN
              /\ cUpd' = r.upd
              /\ cDel' = r.del
              /\ cOld' = r.oldMap
    /\ cNew' = cNew
    /\ cpc' = "done"
    /\ UNCHANGED <<cOld0, cNew0>>
    /\ UNCHANGED <<roundVars, importVars, crudVars>>

---------------------------------------------------------------------------
(* expandAttribute / flattenUserAttributes *)

\* The name expandAttribute (and expandUserAttributesDelete) sends for key k.
expandName(k) ==
    IF ~UserAttributeKeyMatchesStandardAttribute(k) /\ ~HasPrefix(k, Str_custom)
        THEN Str_custom \o k
        ELSE k

\* The API list expandAttribute(tfMap) returns when Go ranges over tfMap in
\* the order `iter`; the nil list of an empty map is the empty list.
expandAttribute(tfMap, iter) ==
    LET order == Restrict(iter, DOMAIN tfMap) IN
    [i \in 1..Len(order) |-> [Name |-> expandName(order[i]), Value |-> tfMap[order[i]]]]

\* The list expandUserAttributesDelete(input) returns.
expandUserAttributesDelete(input) ==
    [i \in 1..Len(input) |-> expandName(input[i])]

\* flattenUserAttributes' key with the two prefixes stripped in the other order.
flattenNameCustomFirst(name) ==
    IF UserAttributeKeyMatchesStandardAttribute(name)
        THEN name
        ELSE TrimPrefix(TrimPrefix(name, Str_custom), Str_dev)

\* The key flattenUserAttributes stores an API attribute name under.
flattenName(name) ==
    IF UserAttributeKeyMatchesStandardAttribute(name)
        THEN name
        ELSE TrimPrefix(TrimPrefix(name, Str_dev), Str_custom)

RECURSIVE flattenLoop(_, _)
flattenLoop(tfMap, apiList) ==
    IF apiList = <<>> THEN tfMap
    ELSE flattenLoop(MapPut(tfMap, flattenName(Head(apiList).Name), Head(apiList).Value),
                     Tail(apiList))

flattenUserAttributes(apiList) == flattenLoop(EmptyMap, apiList)

\* retrieveUserSub: the value of the first attribute named "sub", else "".
Str_sub == <<"s","u","b">>

RECURSIVE retrieveUserSub(_)
retrieveUserSub(apiList) ==
    IF apiList = <<>> THEN ""
    ELSE IF Head(apiList).Name = Str_sub THEN Head(apiList).Value
    ELSE retrieveUserSub(Tail(apiList))

(* Inputs of the round-trip check: keys built from a few base names with up
   to MaxPrefixes prefixes `custom:` / `dev:` in front. *)

MaxPrefixes == 2

BaseKeys == { <<>>,
              <<"e","m","a","i","l">>,
              Str_sub,
              <<"f","o","o">>,
              <<"c","u","s","t","o","m">>,
              <<"d","e","v">> }

RECURSIVE PrefixedKeys(_)
PrefixedKeys(n) ==
    IF n = 0 THEN BaseKeys
    ELSE PrefixedKeys(n - 1)
           \cup {p \o k : p \in {Str_custom, Str_dev}, k \in PrefixedKeys(n - 1)}

RoundKeys == PrefixedKeys(MaxPrefixes)

\* params.UserAttributes = expandAttribute(attributes)
RoundWrite ==
    /\ rpc = "ready"
    /\ \E iter \in Orders(DOMAIN rMap) : rApi' = expandAttribute(rMap, iter)
    /\ rpc' = "written"
    /\ UNCHANGED <<rMap, rBack>>
    /\ UNCHANGED <<computeVars, importVars, crudVars>>

\* d.Set("attributes", flattenUserAttributes(user.UserAttributes))
RoundRead ==
    /\ rpc = "written"
    /\ rBack' = flattenUserAttributes(rApi)
    /\ rpc' = "read"
    /\ UNCHANGED <<rMap, rApi>>
    /\ UNCHANGED <<computeVars, importVars, crudVars>>

---------------------------------------------------------------------------
(* resourceUserImport *)

\* strings.Split(s, "/")
RECURSIVE Split(_)
Split(s) ==
    IF \A i \in 1..Len(s) : <<s[i]>> # Str_slash THEN <<s>>
    ELSE LET i == CHOOSE j \in 1..Len(s) :
                      /\ <<s[j]>> = Str_slash
                      /\ \A h \in 1..(j - 1) : <<s[h]>> # Str_slash
         IN  <<SubSeq(s, 1, i - 1)>> \o Split(SubSeq(s, i + 1, Len(s)))

NoData == [user_pool_id |-> <<>>, username |-> <<>>]

\* resourceUserImport that only rejects IDs with fewer than two parts.
resourceUserImportAtLeastTwo(id, data) ==
    LET idSplit == Split(id) IN
    IF Len(idSplit) < 2
        THEN [ret |-> "error", data |-> data, set |-> {}]
        ELSE [ret  |-> "ok",
              data |-> [user_pool_id |-> idSplit[1], username |-> idSplit[2]],
              set  |-> {"user_pool_id", "username"}]

\* resourceUserImport: what it returns, the ResourceData after it, and the
\* keys it called d.Set with.
resourceUserImport(id, data) ==
    LET idSplit == Split(id) IN
    IF Len(idSplit) # 2
        THEN [ret |-> "error", data |-> data, set |-> {}]
        ELSE [ret  |-> "ok",
              data |-> [user_pool_id |-> idSplit[1], username |-> idSplit[2]],
              set  |-> {"user_pool_id", "username"}]

MaxIdLen == 4

IdChars == {"p", "u", "/"}

ImportIds == UNION {[1..n -> IdChars] : n \in 0..MaxIdLen}

ImportCall ==
    /\ ipc = "ready"
    /\ LET r == resourceUserImport(iId, iData) IN
          /\ iRet' = r.ret
          /\ iData' = r.data
          /\ iSet' = r.set
    /\ ipc' = "done"
    /\ UNCHANGED iId
    /\ UNCHANGED <<computeVars, roundVars, crudVars>>

---------------------------------------------------------------------------
(* A handler run: the ResourceData, the remote entity, the calls issued so
   far, and whether the handler has returned and with an error.  A remote
   call can end in more than one way, so a call, a step and a handler each
   yield the set of runs they can end in. *)

Enter(data, rem) == [d |-> data, remote |-> rem, calls |-> <<>>, done |-> FALSE, err |-> FALSE]

\* A remote call was issued and ended with `result`.
Called(run, name, result) ==
    [run EXCEPT !.calls = Append(@, [call |-> name, result |-> result])]

LastResult(run) == IF run.calls = <<>> THEN "ok" ELSE run.calls[Len(run.calls)].result

\* return diags, with or without an error in them
Return(run, isErr) == [run EXCEPT !.done = TRUE, !.err = isErr]

\* A call whose error is not looked at.
IfErrContinue(runs) == runs

\* `if err != nil { return ...Errorf(...) }` after a call
IfErrReturn(runs) == {IF LastResult(r) # "ok" THEN Return(r, TRUE) ELSE r : r \in runs}

\* The runs that have returned: the statements that follow do not act on them.
Returned(runs) == {r \in runs : r.done}

\* The runs that go on to the statements that follow.
Running(runs) == {r \in runs : ~r.done}

---------------------------------------------------------------------------
(* The Cognito user: remote service *)

Str_user_pool_id == <<"p">>
Str_username     == <<"u">>
Str_email        == <<"e","m","a","i","l">>
Str_foo          == <<"f","o","o">>

\* Keys a configuration gives in `attributes`: one standard, one custom.
UserKeys == {Str_email, Str_foo}

NoUser ==
    [exists |-> FALSE, UserAttributes |-> EmptyMap, Enabled |-> FALSE,
     UserStatus |-> "", UserMFASettingList |-> {}, PreferredMfaSetting |-> "",
     UserCreateDate |-> 0, UserLastModifiedDate |-> 0]

RECURSIVE PutAttributes(_, _)
PutAttributes(attrs, apiList) ==
    IF apiList = <<>> THEN attrs
    ELSE PutAttributes(MapPut(attrs, Head(apiList).Name, Head(apiList).Value), Tail(apiList))

RECURSIVE DeleteAttributes(_, _)
DeleteAttributes(attrs, names) ==
    IF names = <<>> THEN attrs
    ELSE DeleteAttributes(MapDelete(attrs, Head(names)), Tail(names))

\* A call that changes an existing user to `changed`: it can fail for any
\* reason, and fails when the user does not exist (UserNotFoundException).
UserCall(run, name, changed) ==
    {Called(run, name, "error")}
      \cup (IF run.remote.exists
               THEN {[Called(run, name, "ok") EXCEPT !.remote = changed]}
               ELSE {})

\* AdminCreateUser: fails when the user exists (UsernameExistsException).
AdminCreateUser(run, params) ==
    {Called(run, "AdminCreateUser", "error")}
      \cup (IF ~run.remote.exists
               THEN {[Called(run, "AdminCreateUser", "ok") EXCEPT !.remote =
                        [exists |-> TRUE,
                         UserAttributes |->
                             PutAttributes(MapPut(EmptyMap, Str_sub, "uuid"),
                                           params.UserAttributes),
                         Enabled |-> TRUE,
                         UserStatus |-> "FORCE_CHANGE_PASSWORD",
                         UserMFASettingList |-> {},
                         PreferredMfaSetting |-> "",
                         UserCreateDate |-> 1,
                         UserLastModifiedDate |-> 1]]}
               ELSE {})

AdminDisableUser(run) ==
    UserCall(run, "AdminDisableUser", [run.remote EXCEPT !.Enabled = FALSE])

AdminEnableUser(run) ==
    UserCall(run, "AdminEnableUser", [run.remote EXCEPT !.Enabled = TRUE])

AdminSetUserPassword(run, permanent) ==
    UserCall(run, "AdminSetUserPassword",
             [run.remote EXCEPT !.UserStatus =
                 IF permanent THEN "CONFIRMED" ELSE "FORCE_CHANGE_PASSWORD"])

AdminUpdateUserAttributes(run, apiList) ==
    UserCall(run, "AdminUpdateUserAttributes",
             [run.remote EXCEPT !.UserAttributes = PutAttributes(@, apiList)])

AdminDeleteUserAttributes(run, names) ==
    UserCall(run, "AdminDeleteUserAttributes",
             [run.remote EXCEPT !.UserAttributes = DeleteAttributes(@, names)])

AdminDeleteUser(run) == UserCall(run, "AdminDeleteUser", NoUser)

\* FindUserByTwoPartKey: AdminGetUser, with the two not-found error codes
\* (and an empty output) turned into a NotFoundError.  The user may have
\* been deleted by someone else just before the call.
FindUserByTwoPartKey(run) ==
    {Called(run, "AdminGetUser", "error"),
     Called([run EXCEPT !.remote = NoUser], "AdminGetUser", "notfound")}
      \cup (IF run.remote.exists THEN {Called(run, "AdminGetUser", "ok")} ELSE {})

\* time.Format(time.RFC3339)
FormatRFC3339(t) == <<"T", t>>

---------------------------------------------------------------------------
(* The Cognito user: handlers *)

\* The ResourceData of a user that is not in the state, holding `config`.
UserData(config) ==
    [id |-> <<>>,
     attributes |-> config.attributes,
     enabled |-> config.enabled,
     password |-> config.password,
     temporary_password |-> config.temporary_password,
     status |-> "", mfa_setting_list |-> {}, preferred_mfa_setting |-> "",
     creation_date |-> <<>>, last_modified_date |-> <<>>, sub |-> ""]

\* The `attributes` a configuration gives: email with one of two values or
\* absent, foo with one value or absent.
UserAttributeMaps == {m \in MapsOver(UserKeys) : Str_foo \in DOMAIN m => m[Str_foo] = "a"}

\* password and temporary_password conflict with each other.
UserConfigs ==
    { c \in [attributes : UserAttributeMaps, enabled : BOOLEAN,
             password : {"", "pw"}, temporary_password : {"", "tmp"}] :
        ~(c.password # "" /\ c.temporary_password # "") }

\* d.HasChange(key)
HasChange(was, data, key) == was[key] # data[key]

\* user.UserAttributes as the service lists them, in the order apiOrder.
ListAttributes(user, apiOrder) ==
    LET names == Restrict(apiOrder, DOMAIN user.UserAttributes) IN
    [i \in 1..Len(names) |-> [Name |-> names[i], Value |-> user.UserAttributes[names[i]]]]

\* The d.Set calls of resourceUserRead without d.Set("enabled", ...).
setUserDataKeepsEnabled(data, user, apiList) ==
    [data EXCEPT !.attributes = flattenUserAttributes(apiList),
                 !.mfa_setting_list = user.UserMFASettingList,
                 !.preferred_mfa_setting = user.PreferredMfaSetting,
                 !.status = user.UserStatus,
                 !.creation_date = FormatRFC3339(user.UserCreateDate),
                 !.last_modified_date = FormatRFC3339(user.UserLastModifiedDate),
                 !.sub = retrieveUserSub(apiList)]

\* The d.Set calls of resourceUserRead.
setUserData(data, user, apiList) ==
    [data EXCEPT !.attributes = flattenUserAttributes(apiList),
                 !.mfa_setting_list = user.UserMFASettingList,
                 !.preferred_mfa_setting = user.PreferredMfaSetting,
                 !.status = user.UserStatus,
                 !.enabled = user.Enabled,
                 !.creation_date = FormatRFC3339(user.UserCreateDate),
                 !.last_modified_date = FormatRFC3339(user.UserLastModifiedDate),
                 !.sub = retrieveUserSub(apiList)]

\* What resourceUserRead does with the lookup's result, when a missing user
\* is removed from the state also if the resource is new.
userReadResultIgnoresNew(c, isNew, in) ==
    IF LastResult(c) = "notfound"
        THEN Return([c EXCEPT !.d.id = <<>>], FALSE)
    ELSE IF LastResult(c) # "ok"
        THEN Return(c, TRUE)
    ELSE Return([c EXCEPT !.d = setUserData(@, c.remote, ListAttributes(c.remote, in.apiOrder))],
                FALSE)

\* What resourceUserRead does with the lookup's result.
userReadResult(c, isNew, in) ==
    IF ~isNew /\ LastResult(c) = "notfound"
        THEN Return([c EXCEPT !.d.id = <<>>], FALSE)
    ELSE IF LastResult(c) # "ok"
        THEN Return(c, TRUE)
    ELSE Return([c EXCEPT !.d = setUserData(@, c.remote, ListAttributes(c.remote, in.apiOrder))],
                FALSE)

\* resourceUserRead; isNew is d.IsNewResource(), in.apiOrder the order in
\* which the service lists the attributes.
resourceUserRead(run, isNew, in) ==
    {userReadResult(c, isNew, in) : c \in FindUserByTwoPartKey(run)}

\* resourceUserCreate, on a ResourceData marked new.
userCreateCall(run, in) ==
    IfErrReturn(AdminCreateUser(run,
        [UserAttributes |-> expandAttribute(run.d.attributes, in.iter),
         TemporaryPassword |-> run.d.temporary_password]))

userCreateSetId(run) ==
    {[run EXCEPT !.d.id = Str_user_pool_id \o Str_slash \o Str_username]}

userCreateDisable(run) ==
    IF ~run.d.enabled THEN IfErrReturn(AdminDisableUser(run)) ELSE {run}

userCreatePassword(run) ==
    IF run.d.password # "" THEN IfErrReturn(AdminSetUserPassword(run, TRUE)) ELSE {run}

resourceUserCreate(run, in) ==
    LET s1 == userCreateCall(run, in)
        s2 == Returned(s1) \cup UNION {userCreateSetId(c) : c \in Running(s1)}
        s3 == Returned(s2) \cup UNION {userCreateDisable(c) : c \in Running(s2)}
        s4 == Returned(s3) \cup UNION {userCreatePassword(c) : c \in Running(s3)}
    IN  Returned(s4) \cup UNION {resourceUserRead(c, TRUE, in) : c \in Running(s4)}

\* resourceUserUpdate, `if d.HasChange("attributes")`: the update call
userUpdateUpsert(run, r, in) ==
    IF r.upd # EmptyMap
        THEN IfErrReturn(AdminUpdateUserAttributes(run, expandAttribute(r.upd, in.iter)))
        ELSE {run}

\* resourceUserUpdate, `if d.HasChange("attributes")`: the delete call
userUpdateDelete(run, r) ==
    IF Len(r.del) > 0
        THEN IfErrReturn(AdminDeleteUserAttributes(run, expandUserAttributesDelete(r.del)))
        ELSE {run}

\* The attribute calls in the other order.
userUpdateAttributesDeleteFirst(run, was, in) ==
    IF HasChange(was, run.d, "attributes")
        THEN LET r == computeUserAttributesUpdate(was.attributes, run.d.attributes, in.iter)
                 s1 == userUpdateDelete(run, r)
             IN  Returned(s1) \cup UNION {userUpdateUpsert(c, r, in) : c \in Running(s1)}
        ELSE {run}

\* resourceUserUpdate, `if d.HasChange("attributes")`
userUpdateAttributes(run, was, in) ==
    IF HasChange(was, run.d, "attributes")
        THEN LET r == computeUserAttributesUpdate(was.attributes, run.d.attributes, in.iter)
                 s1 == userUpdateUpsert(run, r, in)
             IN  Returned(s1) \cup UNION {userUpdateDelete(c, r) : c \in Running(s1)}
        ELSE {run}

\* The enable or disable call without `if d.HasChange("enabled")`.
userUpdateEnabledAlways(run, was) ==
    IF run.d.enabled
        THEN IfErrReturn(AdminEnableUser(run))
        ELSE IfErrReturn(AdminDisableUser(run))

\* resourceUserUpdate, `if d.HasChange("enabled")`
userUpdateEnabled(run, was) ==
    IF HasChange(was, run.d, "enabled")
        THEN IF run.d.enabled
                 THEN IfErrReturn(AdminEnableUser(run))
                 ELSE IfErrReturn(AdminDisableUser(run))
        ELSE {run}

\* resourceUserUpdate, `if d.HasChange("temporary_password")`
userUpdateTemporaryPassword(run, was) ==
    IF HasChange(was, run.d, "temporary_password")
        THEN IF run.d.temporary_password # ""
                 THEN IfErrReturn(AdminSetUserPassword(run, FALSE))
                 ELSE {[run EXCEPT !.d.temporary_password = ""]}
        ELSE {run}

\* resourceUserUpdate, `if d.HasChange("password")`
userUpdatePassword(run, was) ==
    IF HasChange(was, run.d, "password")
        THEN IF run.d.password # ""
                 THEN IfErrReturn(AdminSetUserPassword(run, TRUE))
                 ELSE {[run EXCEPT !.d.password = ""]}
        ELSE {run}

\* resourceUserUpdate; `was` is the stored state the change is against.
resourceUserUpdate(run, was, in) ==
    LET s1 == userUpdateAttributes(run, was, in)
        s2 == Returned(s1) \cup UNION {userUpdateEnabled(c, was) : c \in Running(s1)}
        s3 == Returned(s2) \cup UNION {userUpdateTemporaryPassword(c, was) : c \in Running(s2)}
        s4 == Returned(s3) \cup UNION {userUpdatePassword(c, was) : c \in Running(s3)}
    IN  Returned(s4) \cup UNION {resourceUserRead(c, FALSE, in) : c \in Running(s4)}

resourceUserDelete(run) ==
    {Return(c, LastResult(c) # "ok") : c \in AdminDeleteUser(run)}

---------------------------------------------------------------------------
(* The core-network policy attachment: remote service *)

Str_core_network_id == <<"c","n">>

\* A policy document is a JSON value on the service's side and a string in
\* the ResourceData: protocol.EncodeJSONValue turns the one into the other.
\* A value received from the service is JSON, so encoding it does not fail.
EncodeJSONValue(v) == <<"{">> \o v \o <<"}">>

\* The JSON value the service reads from a document string.
DecodeJSON(str) == SubSeq(str, 2, Len(str) - 1)

NoPolicy == <<>>

PolicyDocuments == {EncodeJSONValue(<<"A">>), EncodeJSONValue(<<"B">>)}

NoNetwork == [exists |-> FALSE, CoreNetworkId |-> <<>>, State |-> "", PolicyDocument |-> NoPolicy]

\* The core network the policy is attached to exists before the attachment.
NewNetwork ==
    [exists |-> TRUE, CoreNetworkId |-> Str_core_network_id, State |-> "AVAILABLE",
     PolicyDocument |-> NoPolicy]

NetworkCall(run, name, changed) ==
    {Called(run, name, "error")}
      \cup (IF run.remote.exists
               THEN {[Called(run, name, "ok") EXCEPT !.remote = changed]}
               ELSE {})

PutAndExecuteCoreNetworkPolicy(run, id, document) ==
    NetworkCall(run, "PutAndExecuteCoreNetworkPolicy",
                [run.remote EXCEPT !.PolicyDocument = DecodeJSON(document),
                                   !.State = "UPDATING"])

\* Ends without error when the core network is AVAILABLE again, with an
\* error when the timeout passes first.
waitCoreNetworkUpdated(run, id) ==
    NetworkCall(run, "waitCoreNetworkUpdated", [run.remote EXCEPT !.State = "AVAILABLE"])

\* The core network may have been deleted by someone else just before.
FindCoreNetworkByID(run, id) ==
    {Called(run, "FindCoreNetworkByID", "error"),
     Called([run EXCEPT !.remote = NoNetwork], "FindCoreNetworkByID", "notfound")}
      \cup (IF run.remote.exists THEN {Called(run, "FindCoreNetworkByID", "ok")} ELSE {})

FindCoreNetworkPolicyByID(run, id) ==
    {Called(run, "FindCoreNetworkPolicyByID", "error"),
     Called(run, "FindCoreNetworkPolicyByID",
            IF run.remote.PolicyDocument = NoPolicy THEN "notfound" ELSE "ok")}

---------------------------------------------------------------------------
(* The core-network policy attachment: handlers *)

PolicyData(document) ==
    [id |-> <<>>, core_network_id |-> Str_core_network_id,
     policy_document |-> document, state |-> ""]

\* The policy document cleared on any error of the lookup, not only "not found".
policyReadDocumentWritesOnError(run) ==
    { IF LastResult(c) = "notfound"
          THEN Return([c EXCEPT !.d.policy_document = <<>>], FALSE)
      ELSE IF LastResult(c) # "ok"
          THEN Return([c EXCEPT !.d.policy_document = <<>>], TRUE)
      ELSE Return([c EXCEPT !.d.policy_document = EncodeJSONValue(c.remote.PolicyDocument)],
                  FALSE)
      : c \in FindCoreNetworkPolicyByID(run, run.d.id) }

\* resourceCoreNetworkPolicyAttachmentRead from `getting the policy document` on
policyReadDocument(run) ==
    { IF LastResult(c) = "notfound"
          THEN Return([c EXCEPT !.d.policy_document = <<>>], FALSE)
      ELSE IF LastResult(c) # "ok"
          THEN Return(c, TRUE)
      ELSE Return([c EXCEPT !.d.policy_document = EncodeJSONValue(c.remote.PolicyDocument)],
                  FALSE)
      : c \in FindCoreNetworkPolicyByID(run, run.d.id) }

\* What the read does with the core network lookup's result.
policyReadNetwork(c, isNew) ==
    IF ~isNew /\ LastResult(c) = "notfound"
        THEN {Return([c EXCEPT !.d.id = <<>>], FALSE)}
    ELSE IF LastResult(c) # "ok"
        THEN {Return(c, TRUE)}
    ELSE policyReadDocument([c EXCEPT !.d.core_network_id = c.remote.CoreNetworkId,
                                      !.d.state = c.remote.State])

resourceCoreNetworkPolicyAttachmentRead(run, isNew) ==
    UNION {policyReadNetwork(c, isNew) : c \in FindCoreNetworkByID(run, run.d.id)}

policyUpdatePut(run, was) ==
    IF HasChange(was, run.d, "policy_document")
        THEN IfErrReturn(PutAndExecuteCoreNetworkPolicy(run, run.d.id, run.d.policy_document))
        ELSE {run}

\* The update without its wait.
policyUpdateWaitSkipped(run, was) == {run}

policyUpdateWait(run, was) ==
    IF HasChange(was, run.d, "policy_document")
        THEN IfErrReturn(waitCoreNetworkUpdated(run, run.d.id))
        ELSE {run}

\* isNew: the update is also the second half of the create.
resourceCoreNetworkPolicyAttachmentUpdate(run, was, isNew) ==
    LET s1 == policyUpdatePut(run, was)
        s2 == Returned(s1) \cup UNION {policyUpdateWait(c, was) : c \in Running(s1)}
    IN  Returned(s2) \cup
        UNION {resourceCoreNetworkPolicyAttachmentRead(c, isNew) : c \in Running(s2)}

resourceCoreNetworkPolicyAttachmentCreate(run, was) ==
    resourceCoreNetworkPolicyAttachmentUpdate(
        [run EXCEPT !.d.id = run.d.core_network_id], was, TRUE)

\* A delete that detaches the policy from the core network.
policyDeleteDetaches(run) ==
    { Return(c, LastResult(c) # "ok")
      : c \in NetworkCall(run, "DeleteCoreNetworkPolicyVersion",
                          [run.remote EXCEPT !.PolicyDocument = NoPolicy]) }

\* schema.NoopContext
policyDelete(run) == {Return(run, FALSE)}

---------------------------------------------------------------------------
(* One resource instance: the host runs one handler at a time *)

NoConfig == [attributes |-> EmptyMap, enabled |-> FALSE, password |-> "",
             temporary_password |-> ""]

\* Iteration orders: Go ranges over the keys in one order or the other, and
\* the service lists the attributes in one order or the reverse.
UserInputs ==
    { [iter |-> <<Str_email, Str_foo>>,
       apiOrder |-> <<Str_sub, expandName(Str_email), expandName(Str_foo)>>],
      [iter |-> <<Str_foo, Str_email>>,
       apiOrder |-> <<expandName(Str_foo), expandName(Str_email), Str_sub>>] }

\* The ResourceData an update is entered with: the stored state with the
\* configuration's values; the diff of attributes.sub is suppressed, so the
\* stored sub attribute stays.
UserPlan(state, config) ==
    [state EXCEPT !.attributes =
                      IF Str_sub \in DOMAIN state.attributes
                          THEN MapPut(config.attributes, Str_sub, state.attributes[Str_sub])
                          ELSE config.attributes,
                  !.enabled = config.enabled,
                  !.password = config.password,
                  !.temporary_password = config.temporary_password]

\* The handler was planned against `was`, entered with `entry`, ended as `run`.
Finish(name, was, entry, run) ==
    /\ op' = name
    /\ prior' = was
    /\ d0' = entry
    /\ d' = run.d
    /\ remote' = run.remote
    /\ calls' = run.calls
    /\ err' = run.err
    /\ UNCHANGED <<res, computeVars, roundVars, importVars>>

\* The host drops a resource whose delete returned no error.
FinishDelete(entry, run) ==
    /\ op' = "Delete"
    /\ prior' = entry
    /\ d0' = entry
    /\ d' = IF run.err THEN run.d ELSE [run.d EXCEPT !.id = <<>>]
    /\ remote' = run.remote
    /\ calls' = run.calls
    /\ err' = run.err
    /\ UNCHANGED <<res, computeVars, roundVars, importVars>>

\* Something other than this resource instance changed the remote entity.
Elsewhere(changed) ==
    /\ op = "none"
    /\ remote' = changed
    /\ UNCHANGED <<res, d, prior, d0, op, calls, err, computeVars, roundVars, importVars>>

\* The host has taken the handler's result; the next handler can be run.
HostTakesResult ==
    /\ op # "none"
    /\ op' = "none"
    /\ prior' = d
    /\ d0' = d
    /\ calls' = <<>>
    /\ err' = FALSE
    /\ UNCHANGED <<res, d, remote, computeVars, roundVars, importVars>>

UserCreate ==
    /\ op = "none"
    /\ res = "user"
    /\ d.id = <<>>
    /\ \E config \in UserConfigs, in \in UserInputs :
          \E run \in resourceUserCreate(Enter(UserData(config), remote), in) :
              Finish("Create", UserData(NoConfig), UserData(config), run)

UserRead ==
    /\ op = "none"
    /\ res = "user"
    /\ d.id # <<>>
    /\ \E in \in UserInputs :
          \E run \in resourceUserRead(Enter(d, remote), FALSE, in) :
              Finish("Read", d, d, run)

UserUpdate ==
    /\ op = "none"
    /\ res = "user"
    /\ d.id # <<>>
    /\ \E config \in UserConfigs, in \in UserInputs :
          \E run \in resourceUserUpdate(Enter(UserPlan(d, config), remote), d, in) :
              Finish("Update", d, UserPlan(d, config), run)

UserDelete ==
    /\ op = "none"
    /\ res = "user"
    /\ d.id # <<>>
    /\ \E run \in resourceUserDelete(Enter(d, remote)) : FinishDelete(d, run)

UserDeletedElsewhere ==
    /\ res = "user"
    /\ remote.exists
    /\ Elsewhere(NoUser)

UserEnrollsMfa ==
    /\ res = "user"
    /\ remote.exists
    /\ remote.PreferredMfaSetting = ""
    /\ Elsewhere([remote EXCEPT !.UserMFASettingList = {"SOFTWARE_TOKEN_MFA"},
                                !.PreferredMfaSetting = "SOFTWARE_TOKEN_MFA"])

PolicyCreate ==
    /\ op = "none"
    /\ res = "policy"
    /\ d.id = <<>>
    /\ \E document \in PolicyDocuments :
          \E run \in resourceCoreNetworkPolicyAttachmentCreate(
                         Enter(PolicyData(document), remote), PolicyData(<<>>)) :
              Finish("Create", PolicyData(<<>>), PolicyData(document), run)

PolicyRead ==
    /\ op = "none"
    /\ res = "policy"
    /\ d.id # <<>>
    /\ \E run \in resourceCoreNetworkPolicyAttachmentRead(Enter(d, remote), FALSE) :
          Finish("Read", d, d, run)

PolicyUpdate ==
    /\ op = "none"
    /\ res = "policy"
    /\ d.id # <<>>
    /\ \E document \in PolicyDocuments :
          \E run \in resourceCoreNetworkPolicyAttachmentUpdate(
                         Enter([d EXCEPT !.policy_document = document], remote), d, FALSE) :
              Finish("Update", d, [d EXCEPT !.policy_document = document], run)

PolicyDelete ==
    /\ op = "none"
    /\ res = "policy"
    /\ d.id # <<>>
    /\ \E run \in policyDelete(Enter(d, remote)) : FinishDelete(d, run)

NetworkDeletedElsewhere ==
    /\ res = "policy"
    /\ remote.exists
    /\ Elsewhere(NoNetwork)

\* The core network is created again, without a policy.
NetworkCreatedElsewhere ==
    /\ res = "policy"
    /\ ~remote.exists
    /\ Elsewhere(NewNetwork)

Init ==
    /\ res \in {"user", "policy"}
    /\ remote = IF res = "user" THEN NoUser ELSE NewNetwork
    /\ d = IF res = "user" THEN UserData(NoConfig) ELSE PolicyData(<<>>)
    /\ prior = d
    /\ d0 = d
    /\ op = "none"
    /\ calls = <<>>
    /\ err = FALSE
    /\ cpc = "idle" /\ cOld = EmptyMap /\ cNew = EmptyMap /\ cOld0 = EmptyMap
    /\ cNew0 = EmptyMap /\ cUpd = EmptyMap /\ cDel = <<>>
    /\ rpc = "idle" /\ rMap = EmptyMap /\ rApi = <<>> /\ rBack = EmptyMap
    /\ ipc = "idle" /\ iId = <<>> /\ iData = NoData /\ iSet = {} /\ iRet = "none"

Next ==
    \/ UserCreate
    \/ UserRead
    \/ UserUpdate
    \/ UserDelete
    \/ UserDeletedElsewhere
    \/ UserEnrollsMfa
    \/ PolicyCreate
    \/ PolicyRead
    \/ PolicyUpdate
    \/ PolicyDelete
    \/ NetworkDeletedElsewhere
    \/ NetworkCreatedElsewhere
    \/ HostTakesResult

Spec == Init /\ [][Next]_vars

---------------------------------------------------------------------------
(* Specifications of the pure functions: every input within the bounds *)

InitCompute ==
    /\ cpc = "ready"
    /\ cOld \in MapsOver(ComputeKeys)
    /\ cNew \in MapsOver(ComputeKeys)
    /\ cOld0 = cOld
    /\ cNew0 = cNew
    /\ cUpd = EmptyMap
    /\ cDel = <<>>
    /\ rpc = "idle" /\ rMap = EmptyMap /\ rApi = <<>> /\ rBack = EmptyMap
    /\ ipc = "idle" /\ iId = <<>> /\ iData = NoData /\ iSet = {} /\ iRet = "none"
    /\ res = "none" /\ remote = NoUser /\ d = UserData(NoConfig) /\ prior = d /\ d0 = d
    /\ op = "none" /\ calls = <<>> /\ err = FALSE

SpecCompute == InitCompute /\ [][ComputeCall]_vars

InitRound ==
    /\ rpc = "ready"
    /\ rMap \in {EmptyMap} \cup UNION {[{k} -> AttrValues] : k \in RoundKeys}
    /\ rApi = <<>>
    /\ rBack = EmptyMap
    /\ cpc = "idle" /\ cOld = EmptyMap /\ cNew = EmptyMap /\ cOld0 = EmptyMap
    /\ cNew0 = EmptyMap /\ cUpd = EmptyMap /\ cDel = <<>>
    /\ ipc = "idle" /\ iId = <<>> /\ iData = NoData /\ iSet = {} /\ iRet = "none"
    /\ res = "none" /\ remote = NoUser /\ d = UserData(NoConfig) /\ prior = d /\ d0 = d
    /\ op = "none" /\ calls = <<>> /\ err = FALSE

RoundNext == RoundWrite \/ RoundRead

SpecRound == InitRound /\ [][RoundNext]_vars

InitImport ==
    /\ ipc = "ready"
    /\ iId \in ImportIds
    /\ iData = NoData
    /\ iSet = {}
    /\ iRet = "none"
    /\ cpc = "idle" /\ cOld = EmptyMap /\ cNew = EmptyMap /\ cOld0 = EmptyMap
    /\ cNew0 = EmptyMap /\ cUpd = EmptyMap /\ cDel = <<>>
    /\ rpc = "idle" /\ rMap = EmptyMap /\ rApi = <<>> /\ rBack = EmptyMap
    /\ res = "none" /\ remote = NoUser /\ d = UserData(NoConfig) /\ prior = d /\ d0 = d
    /\ op = "none" /\ calls = <<>> /\ err = FALSE

SpecImport == InitImport /\ [][ImportCall]_vars

---------------------------------------------------------------------------
(* Properties of attribute reconciliation, under SpecCompute *)

SeqSet(q) == {q[i] : i \in 1..Len(q)}

\* The keys to upsert: in desired, and new or with another value than before.
UpsertKeys(previous, desired) ==
    {k \in DOMAIN desired : k \notin DOMAIN previous \/ previous[k] # desired[k]}

\* The keys to delete: in previous, not in desired.
DeleteKeys(previous, desired) == (DOMAIN previous) \ (DOMAIN desired)

\* C1: for every (previous, desired), the upsert mapping is exactly desired
\* restricted to the keys that are new or changed, the keys of the delete
\* list are exactly the keys of previous that desired lacks, and no key is
\* in both.
C1_Reconciliation ==
    cpc = "done" =>
        /\ cUpd = [k \in UpsertKeys(cOld0, cNew0) |-> cNew0[k]]
        /\ SeqSet(cDel) = DeleteKeys(cOld0, cNew0)
        /\ (DOMAIN cUpd) \cap SeqSet(cDel) = {}

\* A call that had a changed key to upsert, a key to delete and an
\* unchanged key.
C1_Witness ==
    /\ cpc = "done"
    /\ cDel # <<>>
    /\ \E k \in DOMAIN cUpd : k \in DOMAIN cOld0
    /\ \E k \in DOMAIN cOld0 : k \in DOMAIN cNew0 /\ k \notin DOMAIN cUpd

\* C7 as claimed: after the call the previous and the desired mapping hold
\* exactly what they held before it.
C7_NoSideEffect ==
    cpc = "done" => (cOld = cOld0 /\ cNew = cNew0)

\* C7 amended: the desired mapping is left as it was; from the previous
\* mapping the call removes every key that desired also has, and leaves the
\* other keys with their values.
C7_PreviousConsumed ==
    cpc = "done" =>
        /\ cNew = cNew0
        /\ cOld = [k \in DeleteKeys(cOld0, cNew0) |-> cOld0[k]]

\* A call after which the previous mapping lost a key and kept another.
C7_Witness ==
    /\ cpc = "done"
    /\ cOld # cOld0
    /\ cOld # EmptyMap

---------------------------------------------------------------------------
(* The attribute-key round trip, under SpecRound *)

\* C2 as claimed: a non-standard key is written with the custom: prefix and
\* read back as itself; a standard key is written and read unchanged.
C2_RoundTrip ==
    rpc = "read" =>
        \A k \in DOMAIN rMap :
            /\ rApi[1].Name = IF UserAttributeKeyMatchesStandardAttribute(k)
                                  THEN k ELSE Str_custom \o k
            /\ DOMAIN rBack = {k}

\* C2 amended: a standard key is written and read unchanged; a non-standard
\* key that does not itself begin with custom: is written with the custom:
\* prefix and read back as itself; a non-standard key that begins with
\* custom: is written unchanged and read back without that prefix.
C2_RoundTripUnprefixed ==
    rpc = "read" =>
        \A k \in DOMAIN rMap :
            IF UserAttributeKeyMatchesStandardAttribute(k)
                THEN rApi[1].Name = k /\ rBack = rMap
            ELSE IF ~HasPrefix(k, Str_custom)
                THEN rApi[1].Name = Str_custom \o k /\ rBack = rMap
            ELSE /\ rApi[1].Name = k
                 /\ DOMAIN rBack = {SubSeq(k, Len(Str_custom) + 1, Len(k))}
                 /\ rBack[SubSeq(k, Len(Str_custom) + 1, Len(k))] = rMap[k]

\* A key beginning with dev: went through the round trip.
C2_Witness ==
    /\ rpc = "read"
    /\ \E k \in DOMAIN rMap : HasPrefix(k, Str_dev) /\ rBack = rMap

---------------------------------------------------------------------------
(* The import, under SpecImport *)

Slashes(id) == {i \in 1..Len(id) : <<id[i]>> = Str_slash}

\* C8: the import succeeds exactly for the IDs with a single "/" in them;
\* then user_pool_id is what precedes the "/" and username what follows
\* it; for any other ID it returns an error and sets neither.
C8_Import ==
    ipc = "done" =>
        /\ iRet = "ok" <=> Cardinality(Slashes(iId)) = 1
        /\ iRet # "ok" => (iRet = "error" /\ iSet = {} /\ iData = NoData)
        /\ iRet = "ok" =>
              \E i \in Slashes(iId) :
                  /\ iData.user_pool_id = SubSeq(iId, 1, i - 1)
                  /\ iData.username = SubSeq(iId, i + 1, Len(iId))
                  /\ iSet = {"user_pool_id", "username"}

\* An import of an ID with both parts non-empty.
C8_Witness ==
    /\ ipc = "done"
    /\ iRet = "ok"
    /\ iData.user_pool_id # <<>>
    /\ iData.username # <<>>

---------------------------------------------------------------------------
(* Properties of the handlers, under Spec.  While op is not "none" the
   variables hold the record of the handler that has just returned. *)

Issued(name) == {i \in 1..Len(calls) : calls[i].call = name}

FailedCalls == {i \in 1..Len(calls) : calls[i].result # "ok"}

\* The lookup of the resource itself, by the read.
ResourceLookups == {"AdminGetUser", "FindCoreNetworkByID"}

\* The read found the resource missing.
ResourceNotFound ==
    \E i \in 1..Len(calls) :
        calls[i].call \in ResourceLookups /\ calls[i].result = "notfound"

\* The read found the core network without a policy.
PolicyNotFound ==
    \E i \in 1..Len(calls) :
        calls[i].call = "FindCoreNetworkPolicyByID" /\ calls[i].result = "notfound"

\* The ID the create handler sets.
CreatedId ==
    IF res = "user" THEN Str_user_pool_id \o Str_slash \o Str_username
    ELSE Str_core_network_id

\* C5: when the read's lookup of the resource reports "not found" and the
\* resource is not new, the ID is cleared, no error is returned and nothing
\* else is written; when the resource is new (the read that ends a create),
\* an error is returned and the ID is kept.
C5_NotFoundOnRead ==
    (op # "none" /\ ResourceNotFound) =>
        IF op = "Create"
            THEN err /\ d.id = CreatedId
            ELSE ~err /\ d.id = <<>> /\ d = [d0 EXCEPT !.id = <<>>]

\* A read of a user in the state found the user missing.
C5_Witness ==
    /\ op = "Read"
    /\ res = "user"
    /\ ResourceNotFound
    /\ d0.id # <<>>
    /\ d0.attributes # EmptyMap

\* C3 as claimed: if a remote call failed, local state is what it was when
\* the handler was entered and an error is returned.
C3_FailureLeavesStateAlone ==
    (op # "none" /\ FailedCalls # {}) => (d = d0 /\ err)

\* The "not found" results the read handlers do not return an error for.
Tolerated(i) ==
    /\ calls[i].result = "notfound"
    /\ \/ calls[i].call \in ResourceLookups /\ op # "Create"
       \/ calls[i].call = "FindCoreNetworkPolicyByID"

\* What the policy read writes before it looks the policy document up.
NetworkRefreshed(data) ==
    IF res = "policy" /\ \E i \in Issued("FindCoreNetworkByID") : calls[i].result = "ok"
        THEN [data EXCEPT !.core_network_id = remote.CoreNetworkId, !.state = remote.State]
        ELSE data

\* The create handler got as far as setting the ID: the policy attachment's
\* sets it first, the user's after AdminCreateUser succeeded.
IdWasSet ==
    /\ op = "Create"
    /\ res = "user" => \E i \in Issued("AdminCreateUser") : calls[i].result = "ok"

\* C3 amended: if a remote call failed with anything but a "not found" that
\* the read tolerates, an error is returned, and local state is the entry
\* state with only the writes made before the failing call: the ID that
\* create sets, and core_network_id and state that the policy read sets
\* before it looks the policy document up.  Without an error, a failed call
\* changes local state only by clearing the ID (resource not found) or by
\* clearing policy_document (policy not found).
C3_FailureWritesOnlyEarlierSteps ==
    (op # "none" /\ FailedCalls # {}) =>
        /\ (\E i \in FailedCalls : ~Tolerated(i)) => err
        /\ err => d = NetworkRefreshed([d0 EXCEPT !.id = IF IdWasSet THEN CreatedId ELSE d0.id])
        /\ ~err => \/ ResourceNotFound /\ d = [d0 EXCEPT !.id = <<>>]
                   \/ PolicyNotFound
                        /\ d = NetworkRefreshed([d0 EXCEPT !.policy_document = <<>>])

\* A user create whose disable call failed after the user was created.
C3_Witness ==
    /\ op = "Create"
    /\ res = "user"
    /\ err
    /\ Issued("AdminDisableUser") # {}
    /\ d.id # <<>>

\* The attributes map that mirrors a user's remote attributes: every name
\* with its prefixes stripped, and the value it has.
MirroredAttributes(user) ==
    [k \in {flattenName(n) : n \in DOMAIN user.UserAttributes} |->
        user.UserAttributes[CHOOSE n \in DOMAIN user.UserAttributes : flattenName(n) = k]]

\* Local state equals the remote entity's state.
Mirrors ==
    IF res = "user"
        THEN /\ remote.exists
             /\ d.attributes = MirroredAttributes(remote)
             /\ d.enabled = remote.Enabled
             /\ d.status = remote.UserStatus
             /\ d.mfa_setting_list = remote.UserMFASettingList
             /\ d.preferred_mfa_setting = remote.PreferredMfaSetting
             /\ d.creation_date = FormatRFC3339(remote.UserCreateDate)
             /\ d.last_modified_date = FormatRFC3339(remote.UserLastModifiedDate)
             /\ d.sub = IF Str_sub \in DOMAIN remote.UserAttributes
                            THEN remote.UserAttributes[Str_sub] ELSE ""
        ELSE /\ remote.exists
             /\ d.state = remote.State
             /\ d.policy_document = IF remote.PolicyDocument = NoPolicy THEN <<>>
                                    ELSE EncodeJSONValue(remote.PolicyDocument)

\* The handler ended with a read that found the resource.
EndsWithRead ==
    IF res = "user"
        THEN /\ calls # <<>>
             /\ calls[Len(calls)] = [call |-> "AdminGetUser", result |-> "ok"]
        ELSE /\ Len(calls) >= 2
             /\ calls[Len(calls) - 1] = [call |-> "FindCoreNetworkByID", result |-> "ok"]
             /\ calls[Len(calls)].call = "FindCoreNetworkPolicyByID"

\* C4 as claimed: after a create or update that returned no error, the
\* handler has ended with a read and local state equals the remote state.
C4_SuccessMirrorsRemote ==
    (op \in {"Create", "Update"} /\ ~err) => (EndsWithRead /\ Mirrors)

\* C4 amended: after a create or update that returned no error and left the
\* resource in the state (an update whose read finds the resource missing
\* clears the ID and refreshes nothing), the handler has ended with a read
\* and local state equals the remote state.
C4_SuccessWithIdMirrorsRemote ==
    (op \in {"Create", "Update"} /\ ~err /\ d.id # <<>>) => (EndsWithRead /\ Mirrors)

\* An update of a user changed attributes and the enabled flag remotely and
\* read them back.
C4_Witness ==
    /\ op = "Update"
    /\ res = "user"
    /\ ~err
    /\ d.id # <<>>
    /\ Issued("AdminUpdateUserAttributes") # {}
    /\ Issued("AdminDisableUser") # {}
    /\ Str_foo \in DOMAIN d.attributes

\* The last handler was the user's update.
UserUpdated == op = "Update" /\ res = "user"

AttributesChanged == prior.attributes # d0.attributes

\* C6: in the user's update, the update-attributes call is issued (once)
\* exactly when the attributes changed and there is something to upsert, the
\* delete-attributes call (once) exactly when the attributes changed, there
\* is something to delete and no upsert call failed before it, and the
\* upsert call comes before the delete call.
C6_AttributeCalls ==
    UserUpdated =>
        /\ Cardinality(Issued("AdminUpdateUserAttributes")) =
              IF AttributesChanged /\ UpsertKeys(prior.attributes, d0.attributes) # {}
                  THEN 1 ELSE 0
        /\ Cardinality(Issued("AdminDeleteUserAttributes")) =
              IF /\ AttributesChanged
                 /\ DeleteKeys(prior.attributes, d0.attributes) # {}
                 /\ \A i \in Issued("AdminUpdateUserAttributes") : calls[i].result = "ok"
                  THEN 1 ELSE 0
        /\ \A i \in Issued("AdminUpdateUserAttributes"),
              j \in Issued("AdminDeleteUserAttributes") : i < j

\* An update issued both attribute calls.
C6_Witness ==
    /\ UserUpdated
    /\ Issued("AdminUpdateUserAttributes") # {}
    /\ Issued("AdminDeleteUserAttributes") # {}

EnabledChanged == prior.enabled # d0.enabled

\* C9 as claimed: an update in which enabled did not change issues neither
\* an enable nor a disable call; one in which it changed issues exactly one
\* of them, enable for true and disable for false.
C9_EnabledCalls ==
    UserUpdated =>
        /\ Cardinality(Issued("AdminEnableUser")) =
              IF EnabledChanged /\ d0.enabled THEN 1 ELSE 0
        /\ Cardinality(Issued("AdminDisableUser")) =
              IF EnabledChanged /\ ~d0.enabled THEN 1 ELSE 0

\* An attribute call of the update failed.
AttributeCallFailed ==
    \E i \in Issued("AdminUpdateUserAttributes") \cup Issued("AdminDeleteUserAttributes") :
        calls[i].result # "ok"

\* C9 amended: an update in which enabled did not change issues neither an
\* enable nor a disable call; one in which it changed issues exactly one of
\* them, enable for true and disable for false, unless an attribute call
\* failed before, and then it issues neither.
C9_EnabledCallsUnlessFailedBefore ==
    UserUpdated =>
        /\ Cardinality(Issued("AdminEnableUser")) =
              IF EnabledChanged /\ d0.enabled /\ ~AttributeCallFailed THEN 1 ELSE 0
        /\ Cardinality(Issued("AdminDisableUser")) =
              IF EnabledChanged /\ ~d0.enabled /\ ~AttributeCallFailed THEN 1 ELSE 0

\* An update that changed attributes and set enabled to true issued the
\* enable call after the attribute call.
C9_Witness ==
    /\ UserUpdated
    /\ EnabledChanged
    /\ d0.enabled
    /\ Issued("AdminEnableUser") # {}
    /\ Issued("AdminUpdateUserAttributes") # {}

\* No call is issued after a failed one, and none but the wait twice.
NoCallAfterFailure == \A i \in FailedCalls : i = Len(calls)

AtMostOnce ==
    \A i, j \in 1..Len(calls) :
        (calls[i].call = calls[j].call /\ calls[i].call # "waitCoreNetworkUpdated") => i = j

\* C10 as claimed: a failed remote call, other than the read's "not found"
\* of a resource that is not new, makes the handler return an error; no
\* call follows a failed one and no operation is issued twice.
C10_FailureIsReturned ==
    op # "none" =>
        /\ (\E i \in FailedCalls :
               ~(calls[i].call \in ResourceLookups /\ calls[i].result = "notfound"
                   /\ op # "Create")) => err
        /\ NoCallAfterFailure
        /\ AtMostOnce

\* C10 amended: a failed remote call, other than the read's "not found" of
\* a resource that is not new and other than the "not found" of the policy
\* document lookup (which the policy attachment's read answers by clearing
\* policy_document), makes the handler return an error; no call follows a
\* failed one and no operation is issued twice.
C10_FailureIsReturnedUnlessTolerated ==
    op # "none" =>
        /\ (\E i \in FailedCalls : ~Tolerated(i)) => err
        /\ NoCallAfterFailure
        /\ AtMostOnce

\* An update of a user whose third call failed.
C10_Witness ==
    /\ UserUpdated
    /\ err
    /\ Len(calls) = 3
    /\ FailedCalls = {3}

---------------------------------------------------------------------------
(* The policy attachment's delete and the order of its update's steps *)

\* A step of the host running the policy attachment's delete handler.
PolicyDeleted == op = "none" /\ op' = "Delete" /\ res = "policy"

\* C11: the policy attachment's delete handler, whatever creates, reads and
\* updates came before it, issues no remote call, returns no error and
\* leaves the remote core network and its policy as they were.
C11_DeleteIsNoop ==
    [][PolicyDeleted => /\ calls' = <<>>
                        /\ err' = FALSE
                        /\ remote' = remote]_vars

\* A delete has run on a core network that has a policy.
C11_Witness ==
    /\ op = "Delete"
    /\ res = "policy"
    /\ prior.id # <<>>
    /\ prior.policy_document # <<>>
    /\ remote.exists
    /\ remote.PolicyDocument # NoPolicy

\* The policy attachment's update handler has run, from create or by itself.
PolicyUpdated == res = "policy" /\ op \in {"Create", "Update"}

DocumentChanged == prior.policy_document # d0.policy_document

\* The i-th call was `name` and succeeded.
Succeeded(i, name) ==
    i \in 1..Len(calls) /\ calls[i] = [call |-> name, result |-> "ok"]

\* C12: in the policy attachment's update, when policy_document changed the
\* put-and-execute call is the first call, the wait is issued exactly when
\* put-and-execute succeeded and right after it, and the read is issued
\* exactly when the wait succeeded and right after it; when policy_document
\* did not change neither put-and-execute nor the wait is issued and the
\* read runs alone. No other handler issues the wait.
C12_UpdateStepOrder ==
    /\ (PolicyUpdated /\ DocumentChanged) =>
          /\ Issued("PutAndExecuteCoreNetworkPolicy") = {1}
          /\ Issued("waitCoreNetworkUpdated") =
                 IF Succeeded(1, "PutAndExecuteCoreNetworkPolicy") THEN {2} ELSE {}
          /\ Issued("FindCoreNetworkByID") =
                 IF Succeeded(2, "waitCoreNetworkUpdated") THEN {3} ELSE {}
          /\ Issued("FindCoreNetworkPolicyByID") \subseteq {4}
    /\ (PolicyUpdated /\ ~DocumentChanged) =>
          /\ Issued("PutAndExecuteCoreNetworkPolicy") = {}
          /\ Issued("waitCoreNetworkUpdated") = {}
          /\ Issued("FindCoreNetworkByID") = {1}
          /\ Issued("FindCoreNetworkPolicyByID") \subseteq {2}
    /\ (op # "none" /\ ~PolicyUpdated) => Issued("waitCoreNetworkUpdated") = {}

\* An update that changed the policy document and ran all its steps.
C12_Witness ==
    /\ res = "policy"
    /\ op = "Update"
    /\ DocumentChanged
    /\ ~err
    /\ Len(calls) = 4
    /\ Succeeded(2, "waitCoreNetworkUpdated")
    /\ d.state = "AVAILABLE"

=============================================================================
